---------------------------- MODULE Spec2Model ----------------------------
(***************************************************************************)
(* Model of synthethic_problem_factory/curves.py: the orthogonal-complement *)
(* utility normal_nd, the factory get_manifold, the curve classes           *)
(* Identity_kD, Circle_Piece_2D, S_Curve_2D, Helix_Curve_3D and the         *)
(* Circle_Segment_Builder.                                                   *)
(*                                                                           *)
(* Arithmetic is exact.  A real number is held as (n/d)*sqrt(r) with r       *)
(* squarefree, which is closed under every product, quotient and square      *)
(* root the code takes.  A curve parameter t is held as q quarter turns      *)
(* plus a local angle of TrigTable, whose cosine and sine are rational, so   *)
(* np.cos, np.sin, np.floor(t/(pi/2)) and t - pi/2 are computed exactly.     *)
(* Floating-point rounding is not modelled.                                  *)
(***************************************************************************)
EXTENDS Integers, Sequences, FiniteSets, TLC

VARIABLES curve, result

vars == <<curve, result>>

----------------------------------------------------------------------------
(* Bounds of the model. *)

\* ambient dimensions n_features range over 2..MaxFeatures
MaxFeatures == 3
\* sequences handed to Circle_Segment_Builder have 2..MaxSeqLen entries
MaxSeqLen == 3
\* a query parameter t has 0..MaxQuarter whole quarter turns
MaxQuarter == 3
\* helix radius and pitch range over -MaxParam..MaxParam
MaxParam == 2
\* the interval end handed to a constructor ranges over 1..MaxEnd
MaxEnd == 2

\* the exponent of the threshold 1e-14 of normal_nd
ThresholdExp == 14

----------------------------------------------------------------------------
(* Exact numbers (n/d)*sqrt(r), d > 0, r >= 1 squarefree, n/d in lowest terms *)

Abs(x) == IF x < 0 THEN -x ELSE x

RECURSIVE GCD(_, _)
GCD(a, b) == IF b = 0 THEN a ELSE GCD(b, a % b)

\* the canonical form of (n/d)*sqrt(r) for squarefree r
Norm(n, d, r) ==
    IF n = 0 THEN [n |-> 0, d |-> 1, r |-> 1]
    ELSE LET g == GCD(Abs(n), d)
         IN  [n |-> n \div g, d |-> d \div g, r |-> r]

Q(n, d) == Norm(n, d, 1)
Int2Num(n) == Q(n, 1)
Zero == Int2Num(0)
One == Int2Num(1)
Two == Int2Num(2)

Neg(x) == [x EXCEPT !.n = -x.n]

Mul(x, y) ==
    LET g == GCD(x.r, y.r)
    IN  Norm(x.n * y.n * g, x.d * y.d, (x.r \div g) * (y.r \div g))

\* sums are taken only of numbers over the same radical
Add(x, y) ==
    CASE x.n = 0 -> y
      [] y.n = 0 -> x
      [] x.n # 0 /\ y.n # 0 /\ x.r = y.r ->
            Norm(x.n * y.d + y.n * x.d, x.d * y.d, x.r)

Sub(x, y) == Add(x, Neg(y))

\* x / y for y # 0
Div(x, y) ==
    Mul(x, Norm((IF y.n < 0 THEN -1 ELSE 1) * y.d, Abs(y.n) * y.r, y.r))

\* the largest k with k*k dividing m (m >= 1)
SquarePart(m) ==
    CHOOSE k \in 1..m : m % (k * k) = 0
                        /\ \A j \in (k+1)..m : m % (j * j) # 0

\* np.sqrt of a rational x >= 0
Sqrt(x) ==
    IF x.n = 0 THEN Zero
    ELSE LET m == x.n * x.d
             k == SquarePart(m)
         IN  Norm(k, x.d, m \div (k * k))

\* p * 10^e > q for naturals p, q
RECURSIVE GtPow10(_, _, _)
GtPow10(p, q, e) ==
    IF p = 0 THEN FALSE
    ELSE IF p > q THEN TRUE
    ELSE IF e = 0 THEN FALSE
    ELSE GtPow10(p * 10, q, e - 1)

\* x > 1e-14, decided on the squares
GtThreshold(x) ==
    x.n > 0 /\ GtPow10(x.n * x.n * x.r, x.d * x.d, 2 * ThresholdExp)

----------------------------------------------------------------------------
(* Angles and trigonometry *)

\* local angles in [0, pi/2) as <<cos numerator, sin numerator, denominator>>
TrigTable == << <<1, 0, 1>>, <<4, 3, 5>>, <<3, 4, 5>> >>

Angle(q, i) == [q |-> q, i |-> i]
ZeroAngle == Angle(0, 1)
HalfPi == Angle(1, 1)

\* t - pi/2
MinusHalfPi(t) == Angle(t.q - 1, t.i)
\* t <= 0
NonPositive(t) == t.q < 0 \/ (t.q = 0 /\ t.i = 1)
\* np.floor(t/(np.pi/2.0)).astype('int')
FloorQuarter(t) == t.q
\* t - float(seg) * np.pi/2.0
MinusQuarters(t, seg) == Angle(t.q - seg, t.i)

LocalCos(i) == Q(TrigTable[i][1], TrigTable[i][3])
LocalSin(i) == Q(TrigTable[i][2], TrigTable[i][3])

Cos(t) ==
    CASE t.q % 4 = 0 -> LocalCos(t.i)
      [] t.q % 4 = 1 -> Neg(LocalSin(t.i))
      [] t.q % 4 = 2 -> Neg(LocalCos(t.i))
      [] t.q % 4 = 3 -> LocalSin(t.i)

Sin(t) ==
    CASE t.q % 4 = 0 -> LocalSin(t.i)
      [] t.q % 4 = 1 -> LocalCos(t.i)
      [] t.q % 4 = 2 -> Neg(LocalSin(t.i))
      [] t.q % 4 = 3 -> Neg(LocalCos(t.i))

----------------------------------------------------------------------------
(* Vectors: np arrays indexed from 0 *)

Zeros(n) == [i \in 0..(n-1) |-> Zero]

RECURSIVE SumTo(_, _)
SumTo(f, n) == IF n = 0 THEN Zero ELSE Add(SumTo(f, n - 1), f[n - 1])

Dot(u, v) == SumTo([i \in DOMAIN u |-> Mul(u[i], v[i])], Cardinality(DOMAIN u))
SqNorm(v) == Dot(v, v)

Ok(v) == [ok |-> TRUE, val |-> v]
Err(e) == [ok |-> FALSE, val |-> e]


----------------------------------------------------------------------------
(* class Curve and its shared accessors *)

NoCurve == [kind |-> "none"]

get_plot_dim(self) == self.plot_dim
get_n_features(self) == self.n
get_start(self) == self.t0
get_end(self) == self.t1

Min(a, b) == IF a < b THEN a ELSE b

----------------------------------------------------------------------------
(* class Identity_kD *)

Identity_kD(n_features, start, end, kwargs) ==
    LET k == IF "n_active_features" \in DOMAIN kwargs
             THEN kwargs["n_active_features"] ELSE n_features
    IN  [kind |-> "Identity_kD", n |-> n_features, t0 |-> start, t1 |-> end,
         k |-> k, plot_dim |-> Min(k, 3)]

Identity_get_tangent(self, t) ==
    Ok([i \in 0..(self.n - 1) |->
          IF i < self.k THEN Div(One, Sqrt(Int2Num(self.k))) ELSE Zero])

----------------------------------------------------------------------------
(* class Circle_Piece_2D *)

Circle_Piece_2D(n_features, start, end) ==
    [kind |-> "Circle_Piece_2D", n |-> n_features, t0 |-> start, t1 |-> end,
     plot_dim |-> 2]

Circle_get_basepoint(self, t) ==
    Ok([Zeros(self.n) EXCEPT ![0] = Cos(t), ![1] = Sin(t)])

Circle_get_tangent(self, t) ==
    Ok([Zeros(self.n) EXCEPT ![0] = Neg(Sin(t)), ![1] = Cos(t)])

Circle_get_curvature_vector(self, t) ==
    Ok([Zeros(self.n) EXCEPT ![0] = Neg(Cos(t)), ![1] = Neg(Sin(t))])

----------------------------------------------------------------------------
(* class S_Curve_2D; ts is the parameter after the shift t -= pi/2 *)

S_Curve_2D(n_features, start, end) ==
    [kind |-> "S_Curve_2D", n |-> n_features, t0 |-> start, t1 |-> end,
     plot_dim |-> 2]

\* the branch taken for ts <= 0
S_basepoint_first(self, ts) ==
    [Zeros(self.n) EXCEPT ![0] = Cos(ts), ![1] = Sin(ts)]

\* S_basepoint_second with the second arc centred at (1,0) instead of (2,0)
S_basepoint_second_centre1(self, ts) ==
    [Zeros(self.n) EXCEPT ![0] = Sub(One, Cos(ts)), ![1] = Sin(ts)]

\* the branch taken for ts > 0
S_basepoint_second(self, ts) ==
    [Zeros(self.n) EXCEPT ![0] = Sub(Two, Cos(ts)), ![1] = Sin(ts)]

S_get_basepoint(self, t) ==
    LET ts == MinusHalfPi(t)
    IN  Ok(IF NonPositive(ts) THEN S_basepoint_first(self, ts)
           ELSE S_basepoint_second(self, ts))

S_tangent_first(self, ts) ==
    [Zeros(self.n) EXCEPT ![0] = Neg(Sin(ts)), ![1] = Cos(ts)]

S_tangent_second(self, ts) ==
    [Zeros(self.n) EXCEPT ![0] = Sin(ts), ![1] = Cos(ts)]

S_get_tangent(self, t) ==
    LET ts == MinusHalfPi(t)
    IN  Ok(IF NonPositive(ts) THEN S_tangent_first(self, ts)
           ELSE S_tangent_second(self, ts))

S_get_curvature_vector(self, t) ==
    LET ts == MinusHalfPi(t)
    IN  Ok(IF NonPositive(ts)
           THEN [Zeros(self.n) EXCEPT ![0] = Neg(Cos(ts)), ![1] = Neg(Sin(ts))]
           ELSE [Zeros(self.n) EXCEPT ![0] = Cos(ts), ![1] = Neg(Sin(ts))])

----------------------------------------------------------------------------
(* class Helix_Curve_3D.  A query names the angle alpha*t, an angle of the  *)
(* table, in place of t.                                                     *)

\* Helix_alpha without the square root
Helix_alpha_no_sqrt(radius, pitch) ==
    Div(One, Add(Mul(radius, radius), Mul(pitch, pitch)))

Helix_alpha(radius, pitch) ==
    Div(One, Sqrt(Add(Mul(radius, radius), Mul(pitch, pitch))))

Helix_Curve_3D(n_features, start, end, kwargs) ==
    LET radius == IF "radius" \in DOMAIN kwargs THEN kwargs["radius"] ELSE 1
        pitch == IF "pitch" \in DOMAIN kwargs THEN kwargs["pitch"] ELSE 1
    IN  [kind |-> "Helix_Curve_3D", n |-> n_features, t0 |-> start, t1 |-> end,
         plot_dim |-> 3, radius |-> Int2Num(radius), pitch |-> Int2Num(pitch),
         alpha |-> Helix_alpha(Int2Num(radius), Int2Num(pitch))]

Helix_get_tangent(self, at) ==
    IF self.n < 3 THEN Err("IndexError")
    ELSE Ok([Zeros(self.n) EXCEPT
               ![0] = Mul(Mul(Mul(Neg(One), self.radius), self.alpha), Sin(at)),
               ![1] = Mul(Mul(self.radius, self.alpha), Cos(at)),
               ![2] = Mul(self.alpha, self.pitch)])

Helix_get_curvature_vector(self, at) ==
    IF self.n < 3 THEN Err("IndexError")
    ELSE Ok([Zeros(self.n) EXCEPT
               ![0] = Mul(Mul(Mul(Neg(One), self.radius),
                              Mul(self.alpha, self.alpha)), Cos(at)),
               ![1] = Mul(Mul(Mul(Neg(One), self.radius),
                              Mul(self.alpha, self.alpha)), Sin(at)),
               ![2] = Mul(self.alpha, self.pitch)])

----------------------------------------------------------------------------
(* class Circle_Segment_Builder.  sequence is a TLA+ sequence of            *)
(* <<sign, axis>>; the code's sequence[j] is its entry j+1.                  *)

SignAt(sequence, j) == Int2Num(sequence[j + 1][1])
AxisAt(sequence, j) == sequence[j + 1][2]

\* init_curve_step without the step along the axis of sequence[j-1]
init_curve_step_one_term(translations, sequence, j) ==
    LET c0 == translations[j - 1]
        c2 == [c0 EXCEPT ![AxisAt(sequence, j)] = Add(@, SignAt(sequence, j))]
    IN  [translations EXCEPT ![j] = c2]

\* one pass of the loop body of _init_curve, for column j
init_curve_step(translations, sequence, j) ==
    LET c0 == translations[j - 1]
        c1 == [c0 EXCEPT ![AxisAt(sequence, j - 1)] =
                            Add(@, SignAt(sequence, j - 1))]
        c2 == [c1 EXCEPT ![AxisAt(sequence, j)] = Add(@, SignAt(sequence, j))]
    IN  [translations EXCEPT ![j] = c2]

\* for j in range(j, n_segments)
RECURSIVE init_curve_from(_, _, _, _)
init_curve_from(translations, sequence, j, n_segments) ==
    IF j >= n_segments THEN translations
    ELSE init_curve_from(init_curve_step(translations, sequence, j),
                         sequence, j + 1, n_segments)

init_curve(translations, sequence, n_segments) ==
    init_curve_from(translations, sequence, 1, n_segments)

\* self._n_segments
SegmentCount(sequence) == Len(sequence)

Circle_Segment_Builder(sequence, n_features) ==
    LET n_segments == SegmentCount(sequence)
    IN  [kind |-> "Circle_Segment_Builder", plot_dim |-> 3,
         sequence |-> sequence, n_segments |-> n_segments,
         k |-> Cardinality({sequence[x][2] : x \in DOMAIN sequence}),
         n |-> n_features,
         translations |->
            init_curve([j \in 0..(n_segments - 1) |-> Zeros(n_features)],
                       sequence, n_segments)]

\* the point of segment seg at the local angle a = t - seg*pi/2
Seg_basepoint(self, seg, a) ==
    LET si == SignAt(self.sequence, seg)
        ei == AxisAt(self.sequence, seg)
        sj == SignAt(self.sequence, seg + 1)
        ej == AxisAt(self.sequence, seg + 1)
        v0 == self.translations[seg]
        v1 == [v0 EXCEPT ![ei] = Add(@, Mul(si, Sin(a)))]
    IN  [v1 EXCEPT ![ej] = Add(Sub(@, Mul(sj, Cos(a))), sj)]

Seg_get_basepoint(self, t) ==
    LET seg == FloorQuarter(t)
    IN  IF seg >= self.n_segments \/ seg + 1 >= Len(self.sequence)
        THEN Err("IndexError")
        ELSE Ok(Seg_basepoint(self, seg, MinusQuarters(t, seg)))

\* Seg_tangent with cosine and sine exchanged
Seg_tangent_swapped(self, seg, a) ==
    LET si == SignAt(self.sequence, seg)
        ei == AxisAt(self.sequence, seg)
        sj == SignAt(self.sequence, seg + 1)
        ej == AxisAt(self.sequence, seg + 1)
        v1 == [Zeros(self.n) EXCEPT ![ei] = Mul(si, Sin(a))]
    IN  [v1 EXCEPT ![ej] = Mul(sj, Cos(a))]

\* the tangent of segment seg at the local angle a = t - seg*pi/2
Seg_tangent(self, seg, a) ==
    LET si == SignAt(self.sequence, seg)
        ei == AxisAt(self.sequence, seg)
        sj == SignAt(self.sequence, seg + 1)
        ej == AxisAt(self.sequence, seg + 1)
        v1 == [Zeros(self.n) EXCEPT ![ei] = Mul(si, Cos(a))]
    IN  [v1 EXCEPT ![ej] = Mul(sj, Sin(a))]

Seg_get_tangent(self, t) ==
    LET seg == FloorQuarter(t)
    IN  IF seg + 1 >= Len(self.sequence)
        THEN Err("IndexError")
        ELSE Ok(Seg_tangent(self, seg, MinusQuarters(t, seg)))

----------------------------------------------------------------------------
(* normal_nd.  vectors is the sequence of the columns of the input.          *)

\* the singular values of vectors.T for one or two columns: the square roots
\* of the eigenvalues of the Gram matrix, largest first
SingularValues(vectors) ==
    IF Len(vectors) = 1 THEN << Sqrt(SqNorm(vectors[1])) >>
    ELSE LET a == SqNorm(vectors[1])
             c == SqNorm(vectors[2])
             b == Dot(vectors[1], vectors[2])
             disc == Add(Mul(Sub(a, c), Sub(a, c)), Mul(Int2Num(4), Mul(b, b)))
             root == Sqrt(disc)
             half == Q(1, 2)
         IN  << Sqrt(Mul(half, Add(Add(a, c), root))),
                Sqrt(Mul(half, Sub(Add(a, c), root))) >>

\* normal_nd taking the index range from vectors.shape[1]
normal_nd_shape1(vectors) ==
    LET S == SingularValues(vectors)
        space_dim == Cardinality(DOMAIN vectors[1])
        compl_basis_idx == {i \in 0..(Len(S) - 1) : GtThreshold(S[i + 1])}
        basis_idx == (0..(Len(vectors) - 1)) \ compl_basis_idx
    IN  [basis_idx |-> basis_idx, n_rows |-> space_dim,
         n_cols |-> Cardinality(basis_idx)]

normal_nd(vectors) ==
    LET S == SingularValues(vectors)
        space_dim == Cardinality(DOMAIN vectors[1])
        compl_basis_idx == {i \in 0..(Len(S) - 1) : GtThreshold(S[i + 1])}
        basis_idx == (0..(space_dim - 1)) \ compl_basis_idx
    IN  [basis_idx |-> basis_idx, n_rows |-> space_dim,
         n_cols |-> Cardinality(basis_idx)]

----------------------------------------------------------------------------
(* get_manifold.  The identifier "None" stands for the default None.  The   *)
(* name Circle is bound nowhere in the module, so the 'circle' branch ends   *)
(* in a NameError.                                                           *)

\* get_manifold with an else branch that falls back to the identity curve
get_manifold_fallback(n_features, manifold_id, start, end, kwargs) ==
    CASE manifold_id = "identity" ->
            Ok(Identity_kD(n_features, start, end, kwargs))
      [] manifold_id = "circle" -> Err("NameError")
      [] manifold_id = "scurve" -> Ok(S_Curve_2D(n_features, start, end))
      [] manifold_id = "helix" ->
            Ok(Helix_Curve_3D(n_features, start, end, kwargs))
      [] OTHER -> Ok(Identity_kD(n_features, start, end, kwargs))

get_manifold(n_features, manifold_id, start, end, kwargs) ==
    CASE manifold_id = "identity" ->
            Ok(Identity_kD(n_features, start, end, kwargs))
      [] manifold_id = "circle" -> Err("NameError")
      [] manifold_id = "scurve" -> Ok(S_Curve_2D(n_features, start, end))
      [] manifold_id = "helix" ->
            Ok(Helix_Curve_3D(n_features, start, end, kwargs))
      [] OTHER -> Err("NotImplementedError")

----------------------------------------------------------------------------
(* Method dispatch on the class of the object *)

get_basepoint(self, t) ==
    CASE self.kind = "Circle_Piece_2D" -> Circle_get_basepoint(self, t)
      [] self.kind = "S_Curve_2D" -> S_get_basepoint(self, t)
      [] self.kind = "Circle_Segment_Builder" -> Seg_get_basepoint(self, t)

get_tangent(self, t) ==
    CASE self.kind = "Identity_kD" -> Identity_get_tangent(self, t)
      [] self.kind = "Circle_Piece_2D" -> Circle_get_tangent(self, t)
      [] self.kind = "S_Curve_2D" -> S_get_tangent(self, t)
      [] self.kind = "Helix_Curve_3D" -> Helix_get_tangent(self, t)
      [] self.kind = "Circle_Segment_Builder" -> Seg_get_tangent(self, t)

get_curvature_vector(self, t) ==
    CASE self.kind = "Circle_Piece_2D" -> Circle_get_curvature_vector(self, t)
      [] self.kind = "S_Curve_2D" -> S_get_curvature_vector(self, t)
      [] self.kind = "Helix_Curve_3D" -> Helix_get_curvature_vector(self, t)
      [] OTHER -> Err("AttributeError")

\* normal_nd(np.reshape(self.get_tangent(t), (self._n, -1)))
get_normal(self, t) ==
    LET tangent == get_tangent(self, t)
    IN  IF tangent.ok THEN Ok(normal_nd(<< tangent.val >>)) ELSE tangent

----------------------------------------------------------------------------
(* Inputs *)

ManifoldIds == {"identity", "circle", "scurve", "helix", "nonexistent", "None"}
Features == 2..MaxFeatures
Starts == 0..1
Ends == 1..MaxEnd
Params == (-MaxParam)..MaxParam
Ts == {Angle(q, i) : q \in 0..MaxQuarter, i \in 1..Len(TrigTable)}

NoKwargs == [x \in {} |-> 0]

HelixKwargs ==
    {kw \in UNION {[D -> Params] : D \in SUBSET {"radius", "pitch"}} :
        ~ (/\ (IF "radius" \in DOMAIN kw THEN kw["radius"] ELSE 1) = 0
           /\ (IF "pitch" \in DOMAIN kw THEN kw["pitch"] ELSE 1) = 0)}

\* the keyword arguments the constructor behind manifold_id accepts
KwargsFor(manifold_id, n_features) ==
    CASE manifold_id = "identity" ->
            {NoKwargs} \cup {[x \in {"n_active_features"} |-> k] :
                               k \in 1..(n_features + 1)}
      [] manifold_id = "helix" -> HelixKwargs
      [] OTHER -> {NoKwargs}

Entries(n_features) == {-1, 1} \X (0..(n_features - 1))

\* the example of the class docstring
DocSequence == << <<1, 0>>, <<1, 1>>, <<-1, 0>>, <<-1, 1>> >>

Sequences(n_features) ==
    UNION {[1..len -> Entries(n_features)] : len \in 2..MaxSeqLen}
       \cup {DocSequence}

----------------------------------------------------------------------------
(* The state machine.  A behaviour is one run: a constructor call (as        *)
(* run_example makes one call of get_manifold), then a query of the object  *)
(* it returned.  No method assigns a field of the object, so the one query  *)
(* of a behaviour reaches every pair of object and answer that a longer run *)
(* of queries reaches.                                                       *)

Call(op, arg, out) == [op |-> op, arg |-> arg, out |-> out]

Constructors == {"get_manifold", "Circle_Piece_2D", "Circle_Segment_Builder"}

NotStarted == result.op = "none"
Built == result.op \in Constructors /\ result.out.ok

Init ==
    /\ curve = NoCurve
    /\ result = Call("none", <<>>, Ok(<<>>))

GetManifold ==
  /\ NotStarted
  /\ \E manifold_id \in ManifoldIds, n_features \in Features,
       start \in Starts, end \in Ends :
      \E kwargs \in KwargsFor(manifold_id, n_features) :
        LET r == get_manifold(n_features, manifold_id, start, end, kwargs)
        IN  /\ curve' = IF r.ok THEN r.val ELSE NoCurve
            /\ result' = Call("get_manifold",
                   [n_features |-> n_features, manifold_id |-> manifold_id,
                    start |-> start, end |-> end, kwargs |-> kwargs], r)

NewCirclePiece ==
  /\ NotStarted
  /\ \E n_features \in Features, start \in Starts, end \in Ends :
        LET c == Circle_Piece_2D(n_features, start, end)
        IN  /\ curve' = c
            /\ result' = Call("Circle_Piece_2D",
                   [n_features |-> n_features, start |-> start, end |-> end],
                   Ok(c))

NewSegmentBuilder ==
  /\ NotStarted
  /\ \E n_features \in Features :
      \E sequence \in Sequences(n_features) :
        LET c == Circle_Segment_Builder(sequence, n_features)
        IN  /\ curve' = c
            /\ result' = Call("Circle_Segment_Builder",
                   [sequence |-> sequence, n_features |-> n_features], Ok(c))

GetBasepoint ==
    /\ Built
    /\ curve.kind \in {"Circle_Piece_2D", "S_Curve_2D", "Circle_Segment_Builder"}
    /\ \E t \in Ts : result' = Call("get_basepoint", t, get_basepoint(curve, t))
    /\ UNCHANGED curve

GetTangent ==
    /\ Built
    /\ \E t \in Ts : result' = Call("get_tangent", t, get_tangent(curve, t))
    /\ UNCHANGED curve

GetCurvatureVector ==
    /\ Built
    /\ \E t \in Ts :
         result' = Call("get_curvature_vector", t, get_curvature_vector(curve, t))
    /\ UNCHANGED curve

GetNormal ==
    /\ Built
    /\ \E t \in Ts : result' = Call("get_normal", t, get_normal(curve, t))
    /\ UNCHANGED curve

Next ==
    \/ GetManifold
    \/ NewCirclePiece
    \/ NewSegmentBuilder
    \/ GetBasepoint
    \/ GetTangent
    \/ GetCurvatureVector
    \/ GetNormal

Spec == Init /\ [][Next]_vars

----------------------------------------------------------------------------
(* normal_nd as a function of its input alone: the initial states draw the  *)
(* input matrix, the one action applies normal_nd to it.  Inputs have one   *)
(* or two integer columns (fewer than rows) whose singular values are       *)
(* square roots of rationals.                                                *)

Components == {-1, 0, 1}

Columns(space_dim) ==
    {[i \in 0..(space_dim - 1) |-> Int2Num(f[i])] :
        f \in [0..(space_dim - 1) -> Components]}

RationalSpectrum(vectors) ==
    \/ Len(vectors) = 1
    \/ LET a == SqNorm(vectors[1])
           c == SqNorm(vectors[2])
           b == Dot(vectors[1], vectors[2])
       IN  Sqrt(Add(Mul(Sub(a, c), Sub(a, c)),
                    Mul(Int2Num(4), Mul(b, b)))).r = 1

NormalInputs ==
    UNION {{v \in [1..shape[2] -> Columns(shape[1])] : RationalSpectrum(v)} :
              shape \in {x \in Features \X (1..2) : x[2] < x[1]}}

InitNormal ==
    /\ curve = NoCurve
    /\ result \in {Call("input", v, Ok(<<>>)) : v \in NormalInputs}

ApplyNormalNd ==
    /\ result.op = "input"
    /\ result' = Call("normal_nd", result.arg, Ok(normal_nd(result.arg)))
    /\ UNCHANGED curve

NextNormal == ApplyNormalNd

SpecNormal == InitNormal /\ [][NextNormal]_vars

----------------------------------------------------------------------------
(* Properties *)

FactoryIds == {"identity", "circle", "scurve", "helix"}

VariantOf(manifold_id) ==
    CASE manifold_id = "identity" -> "Identity_kD"
      [] manifold_id = "circle" -> "Circle_Piece_2D"
      [] manifold_id = "scurve" -> "S_Curve_2D"
      [] manifold_id = "helix" -> "Helix_Curve_3D"

\* sign * e_axis in R^n
UnitVec(n, sign, axis) == [Zeros(n) EXCEPT ![axis] = sign]

IsSegments == curve.kind = "Circle_Segment_Builder"

\* the last call was op, at a segment boundary t = q*pi/2 with q >= 1, and
\* returned a vector
AtBoundary(op) ==
    /\ IsSegments
    /\ result.op = op
    /\ result.arg.i = 1
    /\ result.arg.q >= 1
    /\ result.out.ok

\* C1: get_manifold returns, for each of 'identity', 'circle', 'scurve' and
\* 'helix', a curve of the corresponding class whose get_n_features(),
\* get_start() and get_end() are the arguments; none of the four ends in an
\* error.
C1_FactoryBuildsEveryVariant ==
    (result.op = "get_manifold" /\ result.arg.manifold_id \in FactoryIds) =>
        /\ result.out.ok
        /\ curve = result.out.val
        /\ curve.kind = VariantOf(result.arg.manifold_id)
        /\ get_n_features(curve) = result.arg.n_features
        /\ get_start(curve) = result.arg.start
        /\ get_end(curve) = result.arg.end

\* C2: for every helix and every t, get_curvature_vector(t) has third
\* component zero and first two components -a*alpha^2*cos(alpha t) and
\* -a*alpha^2*sin(alpha t).
C2_HelixCurvatureHasNoAxialPart ==
    (/\ curve.kind = "Helix_Curve_3D"
     /\ result.op = "get_curvature_vector"
     /\ result.out.ok) =>
        LET a2 == Mul(curve.radius, Mul(curve.alpha, curve.alpha))
        IN  /\ result.out.val[2] = Zero
            /\ result.out.val[0] = Neg(Mul(a2, Cos(result.arg)))
            /\ result.out.val[1] = Neg(Mul(a2, Sin(result.arg)))

\* C3: a Circle_Segment_Builder built from a sequence has len(sequence) - 1
\* segments and as many columns of translations, so every query of a segment
\* seg with 0 <= seg < n_segments finds sequence[seg] and sequence[seg+1].
C3_OneSegmentPerConsecutivePair ==
    IsSegments =>
        /\ curve.n_segments = Len(curve.sequence) - 1
        /\ Cardinality(DOMAIN curve.translations) = Len(curve.sequence) - 1
        /\ (/\ result.op \in {"get_basepoint", "get_tangent"}
            /\ FloorQuarter(result.arg) < curve.n_segments) => result.out.ok

DocBasepoints ==
    << <<0, 0>>, <<1, 1>>, <<0, 2>>, <<-1, 1>> >>

\* C4: for the builder of [(1,0),(1,1),(-1,0),(-1,1)] in dimension 2,
\* get_basepoint at t = 0, pi/2, pi, 3*pi/2 returns (0,0), (1,1), (0,2),
\* (-1,1); each of the four queries returns a point.
C4_DocExampleBoundaryPoints ==
    (/\ IsSegments
     /\ curve.sequence = DocSequence
     /\ curve.n = 2
     /\ result.op = "get_basepoint"
     /\ result.arg.i = 1
     /\ result.arg.q \in 0..3) =>
        /\ result.out.ok
        /\ result.out.val =
              [i \in 0..1 |-> Int2Num(DocBasepoints[result.arg.q + 1][i + 1])]

\* the tangent is continuous at the boundary the last call queried: the end
\* of segment q-1 and the start of segment q are both sign*e_axis of entry q
TangentsMeet ==
    LET q == result.arg.q
        expected == UnitVec(curve.n, SignAt(curve.sequence, q),
                            AxisAt(curve.sequence, q))
    IN  /\ Seg_tangent(curve, q - 1, HalfPi) = expected
        /\ result.out.val = expected
        /\ Seg_tangent(curve, q, ZeroAngle) = result.out.val

\* C5 as stated: for every sequence, also one that names the same axis in
\* consecutive entries, get_tangent is continuous across every segment
\* boundary, both one-sided tangents being the sign of the shared entry on
\* its axis.
C5_TangentContinuousForEverySequence ==
    AtBoundary("get_tangent") => TangentsMeet

\* C5 as amended: get_tangent is continuous across the boundary between
\* segments j and j+1 whenever the two entries of segment j+1, sequence[j+1]
\* and sequence[j+2], name distinct axes.
C5_TangentContinuousForDistinctAxes ==
    (/\ AtBoundary("get_tangent")
     /\ AxisAt(curve.sequence, result.arg.q)
           # AxisAt(curve.sequence, result.arg.q + 1)) => TangentsMeet

C5_Witness ==
    /\ AtBoundary("get_tangent")
    /\ AxisAt(curve.sequence, result.arg.q)
          # AxisAt(curve.sequence, result.arg.q + 1)
    /\ AxisAt(curve.sequence, result.arg.q - 1)
          = AxisAt(curve.sequence, result.arg.q)
    /\ result.out.val = UnitVec(curve.n, SignAt(curve.sequence, result.arg.q),
                                AxisAt(curve.sequence, result.arg.q))

\* v + sign * e_axis
PlusUnit(v, sign, axis) == [v EXCEPT ![axis] = Add(@, sign)]

\* C6: translations[:,0] = 0 and translations[:,j+1] = translations[:,j]
\* + sign_j*e_axis_j + sign_j+1*e_axis_j+1, so the end of segment j (its
\* formula at the local angle pi/2) is get_basepoint at the start of segment
\* j+1, which is translations[:,j+1].
C6_BasepointContinuous ==
    /\ IsSegments =>
          /\ curve.translations[0] = Zeros(curve.n)
          /\ \A j \in 0..(Len(curve.sequence) - 2) :
                curve.translations[j + 1] =
                   PlusUnit(PlusUnit(curve.translations[j],
                                     SignAt(curve.sequence, j),
                                     AxisAt(curve.sequence, j)),
                            SignAt(curve.sequence, j + 1),
                            AxisAt(curve.sequence, j + 1))
    /\ AtBoundary("get_basepoint") =>
          /\ Seg_basepoint(curve, result.arg.q - 1, HalfPi) = result.out.val
          /\ result.out.val = curve.translations[result.arg.q]

C6_Witness ==
    /\ AtBoundary("get_basepoint")
    /\ result.arg.q = 1
    /\ Len(curve.sequence) = 3
    /\ AxisAt(curve.sequence, 0) # AxisAt(curve.sequence, 1)
    /\ result.out.val = Seg_basepoint(curve, 0, HalfPi)
    /\ result.out.val # Zeros(curve.n)

DistinctConsecutiveAxes(sequence) ==
    \A j \in 1..(Len(sequence) - 1) : sequence[j][2] # sequence[j + 1][2]

\* the curves C7 speaks of
ArcLengthCase ==
    CASE curve.kind = "Identity_kD" -> 1 <= curve.k /\ curve.k <= curve.n
      [] curve.kind = "Circle_Segment_Builder" ->
            DistinctConsecutiveAxes(curve.sequence)
      [] OTHER -> TRUE

\* C7: for every curve variant and every t the squared norm of
\* get_tangent(t) is 1: Identity_kD with 1 <= k <= D, Circle_Piece_2D,
\* S_Curve_2D on both arcs, Helix_Curve_3D for every radius and pitch not
\* both zero, Circle_Segment_Builder for sequences whose consecutive entries
\* name distinct axes.
C7_UnitTangent ==
    (result.op = "get_tangent" /\ result.out.ok /\ ArcLengthCase) =>
        SqNorm(result.out.val) = One

C7_Witness ==
    /\ curve.kind = "Helix_Curve_3D"
    /\ curve.radius = Two
    /\ curve.pitch = Neg(One)
    /\ result.op = "get_tangent"
    /\ result.arg = Angle(2, 2)
    /\ result.out.ok
    /\ SqNorm(result.out.val) = One

\* C8: at the caller's t = pi/2 (shifted t = 0) the two branch formulas of
\* S_Curve_2D.get_basepoint give the same point (1, 0, 0, ...) and the two
\* of get_tangent the same vector (0, 1, 0, ...), so the value returned on
\* the t <= 0 branch is the limit of the t > 0 branch.
C8_SCurveJoinIsC1 ==
    (/\ curve.kind = "S_Curve_2D"
     /\ result.op \in {"get_basepoint", "get_tangent"}
     /\ result.arg = HalfPi) =>
        /\ result.out.ok
        /\ S_basepoint_first(curve, ZeroAngle) = UnitVec(curve.n, One, 0)
        /\ S_basepoint_second(curve, ZeroAngle) = UnitVec(curve.n, One, 0)
        /\ S_tangent_first(curve, ZeroAngle) = UnitVec(curve.n, One, 1)
        /\ S_tangent_second(curve, ZeroAngle) = UnitVec(curve.n, One, 1)
        /\ result.op = "get_basepoint" =>
              result.out.val = S_basepoint_second(curve, ZeroAngle)
        /\ result.op = "get_tangent" =>
              result.out.val = S_tangent_second(curve, ZeroAngle)

C8_Witness ==
    /\ curve.kind = "S_Curve_2D"
    /\ result.op = "get_tangent"
    /\ result.arg = HalfPi
    /\ result.out.ok
    /\ result.out.val = UnitVec(curve.n, One, 1)

\* C9: for shifted t > 0 S_Curve_2D.get_basepoint returns
\* (2,0) - (cos t, sin t): first coordinate 2 - cos t, second -sin t (the
\* point (2, -1) at the caller's t = pi), all further coordinates zero.
C9_SecondArcIsMirrored ==
    (/\ curve.kind = "S_Curve_2D"
     /\ result.op = "get_basepoint"
     /\ ~ NonPositive(MinusHalfPi(result.arg))) =>
        LET ts == MinusHalfPi(result.arg)
        IN  /\ result.out.ok
            /\ result.out.val =
                  [Zeros(curve.n) EXCEPT ![0] = Sub(Two, Cos(ts)),
                                         ![1] = Neg(Sin(ts))]

\* the rank of one or two columns, from their components
RankOf(vectors) ==
    LET idx == DOMAIN vectors[1]
        nonzero(v) == \E i \in idx : v[i] # Zero
    IN  IF Len(vectors) = 1
        THEN (IF nonzero(vectors[1]) THEN 1 ELSE 0)
        ELSE IF \E i, j \in idx :
                   Mul(vectors[1][i], vectors[2][j])
                      # Mul(vectors[1][j], vectors[2][i])
             THEN 2
             ELSE IF nonzero(vectors[1]) \/ nonzero(vectors[2]) THEN 1 ELSE 0

C11_UnknownIdIsRejected ==
    (/\ result.op = "get_manifold"
     /\ result.arg.manifold_id \notin FactoryIds) =>
        /\ ~ result.out.ok
        /\ result.out.val = "NotImplementedError"
        /\ curve = NoCurve

C11_Witness ==
    /\ result.op = "get_manifold"
    /\ result.arg.manifold_id = "nonexistent"
    /\ ~ result.out.ok
    /\ result.out.val = "NotImplementedError"
    /\ curve = NoCurve

=============================================================================
